---- MODULE Spec2Model ----
(***************************************************************************)
(* A model of tecgonic: the Compiler (a wazero runtime with the            *)
(* precompiled Tectonic module), its Compile and GenerateFormat calls, the *)
(* host filesystem they work on and the sandbox instances they create.     *)
(***************************************************************************)
EXTENDS Integers, Sequences, FiniteSets, TLC

\* ------------------------------------------------------------ bounds
MaxJobs == 2        \* caller goroutines that may be inside a call at once
MaxOpts == 2        \* options passed to one Compile call
MaxEngineOps == 1   \* file operations the engine performs in one invocation
MaxEntries == 2     \* entries of a short archive

Jobs == 1..MaxJobs

\* ------------------------------------------------------------ values
Nil == "<nil>"
NoLogs == "<no logs>"
UserDirs == {"B", "F"}
BundleArgs == {"", "B"}
FontArgs == {"", "B", "F"}
Sources == {<<1>>, <<2, 2>>}
EngineData == {<<7>>, <<8, 8>>}
LogTexts == {"", "log"}
ExitCodes == {-1, 0, 1, 2, 3}
CacheArgs == {"", "K"}
\* the least number of directory entries of a complete extraction
MinFiles == 100
DefaultBundleURL == "https://relay.fullyjustified.net/default_bundle_v33.tar"
AllExports == {"tectonic_compile_defaults", "tectonic_generate_format"}

VARIABLES
    host,       \* Compiler: config and the exports of the compiled module
    dirs,       \* directories of the host filesystem (paths)
    fs,         \* regular files of the host filesystem: path -> bytes
    pc,         \* where each caller is inside its call
    kind,       \* which call the caller is in
    cfg,        \* compileConfig of the call / bundleDir of GenerateFormat
    ctxDone,    \* whether the call's context is cancelled
    texSource,  \* Compile's texSource argument
    tmpDir,     \* the call's tmpDir, <<>> before MkdirTemp
    fontsDir,   \* the call's fontsDir (a path), <<>> before it is chosen
    stderrBuf,  \* the call's stderrBuf
    sink,       \* what the caller-supplied stderr writer has received
    mod,        \* the call's module instance, 0 when none
    insts,      \* module instances of the runtime: id -> [mounts, open]
    results,    \* results of fn.Call
    callErr,    \* callErr of fn.Call
    fmtPath,    \* GenerateFormat's fmtPath
    fmtData,    \* GenerateFormat's fmtData
    ret,        \* the call's return value, once it has returned
    nOps,       \* file operations of the running engine invocation
    newPc,      \* where the caller of New is inside its call
    ccfg,       \* New's cfg (compilerConfig)
    rt,         \* the wazero runtime New created
    newRet,     \* what New returned, once it has returned
    pbPc,       \* where the caller of PrepareBundle is inside its call
    pbArgs,     \* PrepareBundle's destDir and force
    body,       \* what is left to read of the HTTP response body
    files,      \* PrepareBundle's files counter
    nReqs,      \* HTTP requests issued
    pbRet       \* the error PrepareBundle returned, once it has returned

vars == <<host, dirs, fs, pc, kind, cfg, ctxDone, texSource, tmpDir, fontsDir,
          stderrBuf, sink, mod, insts, results, callErr, fmtPath, fmtData,
          ret, nOps, newPc, ccfg, rt, newRet, pbPc, pbArgs, body, files, nReqs,
          pbRet>>

\* ------------------------------------------------------------ filesystem
IsPrefix(p, q) == Len(p) <= Len(q) /\ SubSeq(q, 1, Len(p)) = p

Join(p, name) == Append(p, name)

Parent(p) == SubSeq(p, 1, Len(p) - 1)

\* a directory name given as a Go string
DirPath(s) == <<s>>

\* os.MkdirAll
MkdirAll(d, p) == d \cup {SubSeq(p, 1, n) : n \in 1..Len(p)}

\* os.Remove in place of os.RemoveAll: only the directory itself
RemoveTopOnly(d, p) == d \ {p}

\* os.RemoveAll
RemoveAllDirs(d, p) == {q \in d : ~IsPrefix(p, q)}
RemoveAllFiles(f, p) == [q \in {x \in DOMAIN f : ~IsPrefix(p, x)} |-> f[q]]

\* os.Stat succeeds
StatOk(d, f, p) == p \in d \/ p \in DOMAIN f

\* opening with O_CREATE|O_TRUNC
Truncate(f, p) == [q \in DOMAIN f \cup {p} |-> IF q = p THEN <<>> ELSE f[q]]

\* writing data at offset 0 of an open file
WriteAt0(f, p, data) ==
    LET old == IF p \in DOMAIN f THEN f[p] ELSE <<>>
        tail == IF Len(old) > Len(data)
                THEN SubSeq(old, Len(data) + 1, Len(old)) ELSE <<>>
    IN [q \in DOMAIN f \cup {p} |-> IF q = p THEN data \o tail ELSE f[q]]

\* os.WriteFile
WriteFile(f, p, data) == WriteAt0(Truncate(f, p), p, data)

Unlink(f, p) == [q \in DOMAIN f \ {p} |-> f[q]]

\* filepath.Ext
Ext(name) ==
    CASE name = "latex.fmt" -> ".fmt"
      [] name = "tex.fmt" -> ".fmt"
      [] name = "input.pdf" -> ".pdf"
      [] name = "input.tex" -> ".tex"
      [] name = "font.otf" -> ".otf"
      [] OTHER -> ""

\* ------------------------------------------------------------ errors
NoError == [kind |-> Nil, ExitCode |-> 0, Logs |-> NoLogs, WasmErr |-> Nil]

\* fmt.Errorf: msg names the message, logs the captured text it embeds,
\* cause the error it wraps with %w
Errorf(msg, logs, cause) ==
    [kind |-> msg, ExitCode |-> 0, Logs |-> logs, WasmErr |-> cause]

CompileError(code, logs, cause) ==
    [kind |-> "CompileError", ExitCode |-> code, Logs |-> logs, WasmErr |-> cause]

IsTexError(e) == e.kind = "CompileError" /\ e.ExitCode = 1

\* a classification by the wrapped cause in place of the exit code
IsPanicByCause(e) == e.kind = "CompileError" /\ e.WasmErr # Nil

IsPanic(e) == e.kind = "CompileError" /\ e.ExitCode = 2

Unwrap(e) == e.WasmErr

\* ------------------------------------------------------------ numbers
\* a uint64 result of the sandbox, as its upper 32 bits and the two 16-bit
\* halves of its lower 32 bits
Limb == 2 ^ 16

\* wazero's encoding of an i32 the guest returned
EncodeI32(r) == [top |-> 0, w1 |-> (r \div Limb) % Limb, w0 |-> r % Limb]

IsZero64(x) == x.top = 0 /\ x.w1 = 0 /\ x.w0 = 0

\* Go's int32(x) of a uint64
Int32(x) ==
    IF x.w1 >= Limb \div 2 THEN (x.w1 - Limb) * Limb + x.w0
    ELSE x.w1 * Limb + x.w0

\* ------------------------------------------------------------ options
CompileOptions ==
    {[opt |-> "WithBundleDir", dir |-> d] : d \in BundleArgs}
    \cup {[opt |-> "WithFontsDir", dir |-> d] : d \in FontArgs}
    \cup {[opt |-> "WithStderr", dir |-> ""]}

OptSeqs == UNION {[1..n -> CompileOptions] : n \in 0..MaxOpts}

\* WithBundleDir, WithFontsDir, WithStderr applied to a compileConfig
ApplyOption(o, c) ==
    CASE o.opt = "WithBundleDir" -> [c EXCEPT !.bundleDir = o.dir]
      [] o.opt = "WithFontsDir" -> [c EXCEPT !.fontsDir = o.dir]
      [] o.opt = "WithStderr" -> [c EXCEPT !.stderr = TRUE]

RECURSIVE ApplyOptions(_, _)
ApplyOptions(opts, c) ==
    IF opts = <<>> THEN c
    ELSE ApplyOptions(Tail(opts), ApplyOption(Head(opts), c))

\* the compileConfig Compile starts from
DefaultConfig ==
    [bundleDir |-> host.defaultBundleDir,
     fontsDir |-> host.defaultFontsDir,
     stderr |-> FALSE]

NoConfig == [bundleDir |-> "", fontsDir |-> "", stderr |-> FALSE]

\* ------------------------------------------------------------ sandbox
Mount(hostPath, guest) == [host |-> hostPath, guest |-> guest, ro |-> FALSE]

ReadOnlyMount(hostPath, guest) == [host |-> hostPath, guest |-> guest, ro |-> TRUE]

\* the fsConfig of a call
FSConfig(inputDir, outputDir, bundleDir, fonts, cacheDir) ==
    <<Mount(inputDir, "/input"),
      Mount(outputDir, "/output"),
      ReadOnlyMount(DirPath(bundleDir), "/bundle"),
      Mount(fonts, "/fonts"),
      Mount(cacheDir, "/cache")>>

MountsOf(i) == {insts[i].mounts[k] : k \in 1..Len(insts[i].mounts)}

MountAt(i, guest) == CHOOSE m \in MountsOf(i) : m.guest = guest

NoResults == <<>>

NoRet == [bytes |-> <<>>, err |-> NoError]

Returned(b, e) == [bytes |-> b, err |-> e]

\* ------------------------------------------------------------ initial state
\* no Compile or GenerateFormat call is in progress
JobsIdle ==
    /\ pc = [j \in Jobs |-> "idle"]
    /\ kind = [j \in Jobs |-> ""]
    /\ cfg = [j \in Jobs |-> NoConfig]
    /\ ctxDone = [j \in Jobs |-> FALSE]
    /\ texSource = [j \in Jobs |-> <<>>]
    /\ tmpDir = [j \in Jobs |-> <<>>]
    /\ fontsDir = [j \in Jobs |-> <<>>]
    /\ stderrBuf = [j \in Jobs |-> ""]
    /\ sink = [j \in Jobs |-> ""]
    /\ mod = [j \in Jobs |-> 0]
    /\ insts = [i \in {} |-> 0]
    /\ results = [j \in Jobs |-> NoResults]
    /\ callErr = [j \in Jobs |-> Nil]
    /\ fmtPath = [j \in Jobs |-> <<>>]
    /\ fmtData = [j \in Jobs |-> <<>>]
    /\ ret = [j \in Jobs |-> NoRet]
    /\ nOps = [j \in Jobs |-> 0]

\* a runtime: whether it is open, whether WASI is instantiated in it and
\* how its compiled module was obtained
Runtime(state, wasi, compiled) ==
    [state |-> state, wasi |-> wasi, compiled |-> compiled]

NoRuntime == Runtime("none", FALSE, "none")

NoCompilerConfig ==
    [defaultBundleDir |-> "", defaultFontsDir |-> "", compilationCacheDir |-> ""]

\* the Compiler New returns: config and the exports of the compiled module
Compiler(c, exports) ==
    [defaultBundleDir |-> c.defaultBundleDir,
     defaultFontsDir |-> c.defaultFontsDir,
     exports |-> exports]

NoCompiler == Compiler(NoCompilerConfig, {})

NewReturned(ok, e) == [compiler |-> ok, err |-> e]

\* no PrepareBundle call is in progress
BundleIdle ==
    /\ pbPc = "idle"
    /\ pbArgs = [destDir |-> "", bundleURL |-> "", force |-> FALSE]
    /\ body = <<>>
    /\ files = 0
    /\ nReqs = 0
    /\ pbRet = NoError

\* New has returned the Compiler host
Constructed ==
    /\ newPc = "done"
    /\ ccfg = [defaultBundleDir |-> host.defaultBundleDir,
               defaultFontsDir |-> host.defaultFontsDir,
               compilationCacheDir |-> ""]
    /\ rt = Runtime("open", TRUE, "built")
    /\ newRet = NewReturned(TRUE, NoError)

\* the state after construction, with a prepared bundle directory B and a
\* font directory F on the host
Init ==
    /\ host \in [defaultBundleDir : BundleArgs,
                 defaultFontsDir : {"", "F"},
                 exports : {AllExports, {}}]
    /\ dirs = {<<"tmp">>, <<"B">>, <<"F">>}
    /\ fs = (<<"B", "SHA256SUM">> :> <<0>>)
    /\ JobsIdle
    /\ Constructed
    /\ BundleIdle

fsVars == <<dirs, fs>>
newVars == <<newPc, ccfg, rt, newRet>>
pbVars == <<pbPc, pbArgs, body, files, nReqs, pbRet>>
\* what no Compile or GenerateFormat call changes
hostVars == <<host, newVars, pbVars>>
\* what no New or PrepareBundle call changes
jobVars == <<pc, kind, cfg, ctxDone, texSource, tmpDir, fontsDir, stderrBuf, sink,
             mod, insts, results, callErr, fmtPath, fmtData, ret, nOps>>
callVars == <<kind, cfg, ctxDone, texSource>>
localVars == <<tmpDir, fontsDir, stderrBuf, sink, results, callErr, fmtPath, fmtData>>
instVars == <<mod, insts>>

\* the call of caller j returns e (after its deferred calls, when next is one)
Fail(j, e, next) ==
    /\ ret' = [ret EXCEPT ![j] = Returned(<<>>, e)]
    /\ pc' = [pc EXCEPT ![j] = next]

\* what a caller's locals are outside a call
ResetLocals(j) ==
    /\ kind' = [kind EXCEPT ![j] = ""]
    /\ cfg' = [cfg EXCEPT ![j] = NoConfig]
    /\ ctxDone' = [ctxDone EXCEPT ![j] = FALSE]
    /\ texSource' = [texSource EXCEPT ![j] = <<>>]
    /\ tmpDir' = [tmpDir EXCEPT ![j] = <<>>]
    /\ fontsDir' = [fontsDir EXCEPT ![j] = <<>>]
    /\ stderrBuf' = [stderrBuf EXCEPT ![j] = ""]
    /\ sink' = [sink EXCEPT ![j] = ""]
    /\ mod' = [mod EXCEPT ![j] = 0]
    /\ results' = [results EXCEPT ![j] = NoResults]
    /\ callErr' = [callErr EXCEPT ![j] = Nil]
    /\ fmtPath' = [fmtPath EXCEPT ![j] = <<>>]
    /\ fmtData' = [fmtData EXCEPT ![j] = <<>>]
    /\ ret' = [ret EXCEPT ![j] = NoRet]
    /\ nOps' = [nOps EXCEPT ![j] = 0]

TempName(n) == <<"tmp", ToString(n)>>

\* names no longer usable: existing directories and those callers still hold
TakenTemp == dirs \cup {tmpDir[k] : k \in Jobs}

\* the name os.MkdirTemp picks: a new one
FreshTemp ==
    TempName(CHOOSE n \in 1..MaxJobs :
                /\ TempName(n) \notin TakenTemp
                /\ \A k \in 1..(n - 1) : TempName(k) \in TakenTemp)

\* the identity of a newly instantiated module
FreshInst ==
    CHOOSE i \in 1..MaxJobs :
        /\ i \notin DOMAIN insts
        /\ \A k \in 1..(i - 1) : k \in DOMAIN insts

\* a runtime that instantiates modules after it was closed
RuntimeNeverChecked == TRUE

\* runtime.InstantiateModule fails on a runtime that was closed
RuntimeOpen == rt.state = "open"

\* runtime.InstantiateModule with the given fsConfig succeeded for caller j
Instantiated(j, fsConfig) ==
    /\ insts' = (FreshInst :> [mounts |-> fsConfig, open |-> TRUE]) @@ insts
    /\ mod' = [mod EXCEPT ![j] = FreshInst]

\* a start function that fails the instantiation has written text to the
\* module's stderr before it failed
StartWrote(j, text) ==
    /\ stderrBuf' = [stderrBuf EXCEPT ![j] = text]
    /\ sink' = [sink EXCEPT ![j] = IF cfg[j].stderr THEN text ELSE @]

\* a return that leaves the instance as it is
ModStaysOpen(j) == UNCHANGED insts

\* mod.Close
ModClose(j) == insts' = [insts EXCEPT ![mod[j]].open = FALSE]

\* ------------------------------------------------------------ PrepareBundle
\* a gzip stream, reduced to its two magic bytes, the data and a trailing
\* checksum of the data
RECURSIVE Sum(_)
Sum(data) == IF data = <<>> THEN 0 ELSE Head(data) + Sum(Tail(data))

Checksum(data) == Sum(data) % 256

Gzip(data) == <<31, 139>> \o data \o <<Checksum(data)>>

\* gzip.NewReader succeeds when the header is a gzip header
GzipHeader(p) == Len(p) >= 2 /\ p[1] = 31 /\ p[2] = 139

\* what reading a gzip.Reader to its end yields: the data, and an error
\* when the stream ends early or its checksum does not match
Gunzip(p) ==
    IF Len(p) < 3 THEN [data |-> <<>>, ok |-> FALSE]
    ELSE LET data == SubSeq(p, 3, Len(p) - 1)
         IN [data |-> data, ok |-> p[Len(p)] = Checksum(data)]

\* the reader PrepareBundle hands to writeFile for an entry's data
EntryReader(entryData) ==
    IF GzipHeader(entryData) THEN Gunzip(entryData)
    ELSE [data |-> entryData, ok |-> TRUE]

\* a tar entry; Name is the header's name as its path elements
Entry(name, typeflag, data) == [Name |-> name, Typeflag |-> typeflag, data |-> data]

\* filepath.Base of a name given as its path elements; an absolute name
\* starts with the element "/"
Base(name) == IF name = <<>> THEN "." ELSE name[Len(name)]

\* filepath.Clean of a relative path: ".." takes back the element before it
RECURSIVE Clean(_, _)
Clean(done, rest) ==
    IF rest = <<>> THEN done
    ELSE IF Head(rest) \in {".", "/"} THEN Clean(done, Tail(rest))
    ELSE IF Head(rest) = ".." THEN Clean(Parent(done), Tail(rest))
    ELSE Clean(Append(done, Head(rest)), Tail(rest))

\* filepath.Join(dir, elems...)
FilepathJoin(p, elems) == Clean(p, elems)

\* a PrepareBundle that joins the entry's whole name to destDir
DestPathUnflattened(destDir, name) == FilepathJoin(DirPath(destDir), name)

\* destPath := filepath.Join(destDir, filepath.Base(header.Name))
DestPath(destDir, name) == FilepathJoin(DirPath(destDir), <<Base(name)>>)

\* the point where a response body breaks off: inside a header (tr.Next
\* fails) or inside an entry's data (io.ReadAll fails)
Cut == Entry(<<>>, "cut", <<>>)
CutData == Entry(<<"a.tex">>, "cutdata", <<>>)

EntryNames == {<<"SHA256SUM">>, <<"a.tex">>, <<"tex", "a.tex">>}
Payloads == {<<5>>, Gzip(<<6, 6>>), <<31, 139, 6, 0>>}

\* names that are empty, absolute, end in ".." or climb out of the
\* directory they are extracted into
OddNames == {<<>>, <<"/", "a.tex">>, <<"tex", "..">>, <<"..", "tmp", "a.tex">>}

Entries ==
    {Entry(n, "reg", d) : n \in EntryNames, d \in Payloads}
        \cup {Entry(n, "reg", <<5>>) : n \in OddNames}
        \cup {Entry(<<"tex">>, "dir", <<>>), Cut, CutData}

\* n regular entries with distinct names, every second one gzip-compressed
Many(n) ==
    [i \in 1..n |-> Entry(<<ToString(i)>>, "reg",
                          IF i % 2 = 0 THEN Gzip(<<i % 256>>) ELSE <<i % 256>>)]

ShortArchives == UNION {[1..n -> Entries] : n \in 0..MaxEntries}

\* the response bodies a server sends: short ones, and long ones of one
\* entry less than MinFiles, alone or followed by one more entry
Archives ==
    ShortArchives
        \cup {Many(MinFiles - 1) \o t : t \in UNION {[1..n -> Entries] : n \in 0..1}}

\* os.ReadDir(p): the names of the files and directories in directory p
DirEntries(d, f, p) ==
    {q[Len(q)] : q \in {r \in DOMAIN f \cup d : r # <<>> /\ Parent(r) = p}}

\* os.Create, io.Copy and Close of writeFile: nothing when the file cannot
\* be created (path is a directory, <<>> being the working directory, or
\* is in none), and what the reader gave otherwise
writeFile(d, f, path, r, ok) ==
    IF ~ok \/ path = <<>> \/ path \in d \/ Parent(path) \notin d
    THEN [fs |-> f, ok |-> FALSE]
    ELSE [fs |-> WriteFile(f, path, r.data), ok |-> r.ok]

PbReturn(e) ==
    /\ pbRet' = e
    /\ pbPc' = "done"

\* a PrepareBundle that skips the download whenever the marker exists
PrepareBundleCallNoForce(destDir, bundleURL, force) ==
    /\ pbPc = "idle"
    /\ pbArgs' = [destDir |-> destDir,
                  bundleURL |-> IF bundleURL = "" THEN DefaultBundleURL ELSE bundleURL,
                  force |-> force]
    /\ IF StatOk(dirs, fs, Join(DirPath(destDir), "SHA256SUM"))
       THEN PbReturn(NoError)
       ELSE /\ pbPc' = "MkdirAll"
            /\ UNCHANGED pbRet
    /\ UNCHANGED <<host, fsVars, newVars, body, files, nReqs, jobVars>>

\* PrepareBundle is called: it returns at once when force is false and the
\* marker SHA256SUM exists in destDir
PrepareBundleCall(destDir, bundleURL, force) ==
    /\ pbPc = "idle"
    /\ pbArgs' = [destDir |-> destDir,
                  bundleURL |-> IF bundleURL = "" THEN DefaultBundleURL ELSE bundleURL,
                  force |-> force]
    /\ IF ~force /\ StatOk(dirs, fs, Join(DirPath(destDir), "SHA256SUM"))
       THEN PbReturn(NoError)
       ELSE /\ pbPc' = "MkdirAll"
            /\ UNCHANGED pbRet
    /\ UNCHANGED <<host, fsVars, newVars, body, files, nReqs, jobVars>>

\* os.MkdirAll(destDir, 0o755)
PrepareBundleMkdirAll(ok) ==
    /\ pbPc = "MkdirAll"
    /\ IF ok
       THEN /\ dirs' = MkdirAll(dirs, DirPath(pbArgs.destDir))
            /\ pbPc' = "Do"
            /\ UNCHANGED pbRet
       ELSE /\ PbReturn(Errorf("creating bundle dir", NoLogs, "io"))
            /\ UNCHANGED dirs
    /\ UNCHANGED <<host, fs, newVars, pbArgs, body, files, nReqs, jobVars>>

\* http.NewRequestWithContext and http.DefaultClient.Do: the request is sent
\* and fails, or is answered with a status and a body
PrepareBundleDo(sent, status, archive) ==
    /\ pbPc = "Do"
    /\ nReqs' = nReqs + 1
    /\ IF ~sent
       THEN /\ PbReturn(Errorf("downloading bundle", NoLogs, "net"))
            /\ UNCHANGED body
       ELSE IF status # 200
       THEN /\ PbReturn(Errorf("downloading bundle: HTTP", NoLogs, Nil))
            /\ UNCHANGED body
       ELSE /\ body' = archive
            /\ pbPc' = "Next"
            /\ UNCHANGED pbRet
    /\ UNCHANGED <<host, fsVars, newVars, pbArgs, files, jobVars>>

\* one turn of the extraction loop: tr.Next, and for a regular file
\* io.ReadAll, the gzip attempt and writeFile
PrepareBundleNext(ok) ==
    /\ pbPc = "Next"
    /\ IF body = <<>>
       THEN /\ pbPc' = "ReadDir"
            /\ UNCHANGED <<fs, body, files, pbRet>>
       ELSE LET header == Head(body)
                destPath == DestPath(pbArgs.destDir, header.Name)
                w == writeFile(dirs, fs, destPath, EntryReader(header.data), ok)
            IN CASE header.Typeflag = "cut" ->
                        /\ PbReturn(Errorf("reading tar entry", NoLogs, "io"))
                        /\ UNCHANGED <<fs, body, files>>
                 [] header.Typeflag = "cutdata" ->
                        /\ PbReturn(Errorf("reading entry", NoLogs, "io"))
                        /\ UNCHANGED <<fs, body, files>>
                 [] header.Typeflag = "dir" ->
                        /\ body' = Tail(body)
                        /\ UNCHANGED <<fs, files, pbPc, pbRet>>
                 [] header.Typeflag = "reg" ->
                        /\ fs' = w.fs
                        /\ IF w.ok
                           THEN /\ body' = Tail(body)
                                /\ files' = files + 1
                                /\ UNCHANGED <<pbPc, pbRet>>
                           ELSE /\ PbReturn(Errorf("writing", NoLogs, "io"))
                                /\ UNCHANGED <<body, files>>
    /\ UNCHANGED <<host, dirs, newVars, pbArgs, nReqs, jobVars>>

\* os.ReadDir(destDir) and the check of the number of entries
PrepareBundleReadDir(ok) ==
    /\ pbPc = "ReadDir"
    /\ LET entries == DirEntries(dirs, fs, DirPath(pbArgs.destDir))
       IN IF ~ok THEN PbReturn(Errorf("reading bundle dir", NoLogs, "io"))
          ELSE IF Cardinality(entries) < MinFiles
          THEN PbReturn(Errorf("bundle extraction incomplete", NoLogs, Nil))
          ELSE PbReturn(NoError)
    /\ UNCHANGED <<host, fsVars, newVars, pbArgs, body, files, nReqs, jobVars>>

\* ------------------------------------------------------------ New and Close
\* the CompilerOption values
CompilerOptions ==
    [opt : {"WithDefaultBundleDir"}, dir : BundleArgs]
        \cup [opt : {"WithDefaultFontsDir"}, dir : {"", "F"}]
        \cup [opt : {"WithCompilationCache"}, dir : CacheArgs]

CompilerOptSeqs == UNION {[1..n -> CompilerOptions] : n \in 0..MaxOpts}

ApplyCompilerOption(o, c) ==
    CASE o.opt = "WithDefaultBundleDir" -> [c EXCEPT !.defaultBundleDir = o.dir]
      [] o.opt = "WithDefaultFontsDir" -> [c EXCEPT !.defaultFontsDir = o.dir]
      [] o.opt = "WithCompilationCache" -> [c EXCEPT !.compilationCacheDir = o.dir]

RECURSIVE ApplyCompilerOptions(_, _)
ApplyCompilerOptions(opts, c) ==
    IF opts = <<>> THEN c
    ELSE ApplyCompilerOptions(Tail(opts), ApplyCompilerOption(Head(opts), c))

\* the file in which a compilation cache in directory d keeps the compiled module
CachedModule(d) == Join(DirPath(d), "module")

\* rt.CompileModule in a runtime whose configuration names cache directory
\* cacheDir ("" for none): the module is loaded from the cache when it is
\* there, and otherwise built and stored in the cache
CompileModule(f, cacheDir) ==
    IF cacheDir # "" /\ CachedModule(cacheDir) \in DOMAIN f
    THEN [compiled |-> "loaded", fs |-> f]
    ELSE [compiled |-> "built",
          fs |-> IF cacheDir = "" THEN f
                 ELSE WriteFile(f, CachedModule(cacheDir), <<9>>)]

\* the compilation cache of the runtime configuration New builds:
\* wazero.NewRuntimeConfig().WithCloseOnContextDone(true) names none
RuntimeCache(c) == ""

\* New is called: the options are applied and the runtime is created
NewCall(opts) ==
    /\ newPc = "idle"
    /\ ccfg' = ApplyCompilerOptions(opts, NoCompilerConfig)
    /\ rt' = Runtime("open", FALSE, "none")
    /\ newPc' = "Instantiate"
    /\ UNCHANGED <<host, fsVars, newRet, pbVars, jobVars>>

\* wasi_snapshot_preview1.Instantiate(ctx, rt)
NewInstantiate(ok) ==
    /\ newPc = "Instantiate"
    /\ IF ok
       THEN /\ rt' = [rt EXCEPT !.wasi = TRUE]
            /\ newPc' = "CompileModule"
            /\ UNCHANGED newRet
       ELSE /\ rt' = [rt EXCEPT !.state = "closed"]
            /\ newRet' = NewReturned(FALSE, Errorf("instantiating WASI", NoLogs, "io"))
            /\ newPc' = "done"
    /\ UNCHANGED <<host, fsVars, ccfg, pbVars, jobVars>>

\* a New that returns the compilation error with the runtime left open
NewCompileModuleLeaky(ok, exports) ==
    /\ newPc = "CompileModule"
    /\ IF ok
       THEN LET c == CompileModule(fs, RuntimeCache(ccfg))
            IN /\ rt' = [rt EXCEPT !.compiled = c.compiled]
               /\ fs' = c.fs
               /\ host' = Compiler(ccfg, exports)
               /\ newRet' = NewReturned(TRUE, NoError)
       ELSE /\ newRet' = NewReturned(FALSE, Errorf("compiling WASM module", NoLogs, "io"))
            /\ UNCHANGED <<host, fs, rt>>
    /\ newPc' = "done"
    /\ UNCHANGED <<dirs, ccfg, pbVars, jobVars>>

\* rt.CompileModule(ctx, wasm.TectonicWASM), and the return that follows;
\* exports are the functions the embedded module exports
NewCompileModule(ok, exports) ==
    /\ newPc = "CompileModule"
    /\ IF ok
       THEN LET c == CompileModule(fs, RuntimeCache(ccfg))
            IN /\ rt' = [rt EXCEPT !.compiled = c.compiled]
               /\ fs' = c.fs
               /\ host' = Compiler(ccfg, exports)
               /\ newRet' = NewReturned(TRUE, NoError)
       ELSE /\ rt' = [rt EXCEPT !.state = "closed"]
            /\ newRet' = NewReturned(FALSE, Errorf("compiling WASM module", NoLogs, "io"))
            /\ UNCHANGED <<host, fs>>
    /\ newPc' = "done"
    /\ UNCHANGED <<dirs, ccfg, pbVars, jobVars>>

\* Compiler.Close: c.runtime.Close(ctx) closes the runtime and every module
\* instantiated in it
Close ==
    /\ newPc = "done"
    /\ newRet.compiler
    /\ rt.state = "open"
    /\ rt' = [rt EXCEPT !.state = "closed"]
    /\ insts' = [i \in DOMAIN insts |-> [insts[i] EXCEPT !.open = FALSE]]
    /\ UNCHANGED <<host, fsVars, newPc, ccfg, newRet, pbVars, pc, callVars, localVars,
                   mod, ret, nOps>>

\* the caller of New has taken the result and calls New again
NewCallerContinues ==
    /\ newPc = "done"
    /\ rt.state = "closed"
    /\ newPc' = "idle"
    /\ host' = NoCompiler
    /\ ccfg' = NoCompilerConfig
    /\ rt' = NoRuntime
    /\ newRet' = NewReturned(FALSE, NoError)
    /\ UNCHANGED <<fsVars, pbVars, jobVars>>

\* ------------------------------------------------------------ Compile
\* a Compile that creates its temporary directory before it checks bundleDir
CompileCallLateCheck(j, src, opts, done) ==
    /\ pc[j] = "idle"
    /\ kind' = [kind EXCEPT ![j] = "Compile"]
    /\ cfg' = [cfg EXCEPT ![j] = ApplyOptions(opts, DefaultConfig)]
    /\ texSource' = [texSource EXCEPT ![j] = src]
    /\ ctxDone' = [ctxDone EXCEPT ![j] = done]
    /\ tmpDir' = [tmpDir EXCEPT ![j] = FreshTemp]
    /\ dirs' = dirs \cup {FreshTemp}
    /\ IF cfg'[j].bundleDir = ""
       THEN Fail(j, Errorf("no bundle directory specified", NoLogs, Nil), "RemoveAll")
       ELSE /\ pc' = [pc EXCEPT ![j] = "MkdirAll"]
            /\ UNCHANGED ret
    /\ UNCHANGED <<hostVars, fs, fontsDir, stderrBuf, sink, results, callErr, fmtPath,
                   fmtData, instVars, nOps>>

\* Compile is called: the options are applied over the host's defaults and
\* the call fails at once when no bundle directory results
CompileCall(j, src, opts, done) ==
    /\ pc[j] = "idle"
    /\ kind' = [kind EXCEPT ![j] = "Compile"]
    /\ cfg' = [cfg EXCEPT ![j] = ApplyOptions(opts, DefaultConfig)]
    /\ texSource' = [texSource EXCEPT ![j] = src]
    /\ ctxDone' = [ctxDone EXCEPT ![j] = done]
    /\ IF cfg'[j].bundleDir = ""
       THEN Fail(j, Errorf("no bundle directory specified", NoLogs, Nil), "done")
       ELSE /\ pc' = [pc EXCEPT ![j] = "MkdirTemp"]
            /\ UNCHANGED ret
    /\ UNCHANGED <<hostVars, fsVars, localVars, instVars, nOps>>

\* tmpDir, err := os.MkdirTemp("", "tecgonic-*"); defer os.RemoveAll(tmpDir)
CompileMkdirTemp(j, ok) ==
    /\ pc[j] = "MkdirTemp"
    /\ kind[j] = "Compile"
    /\ IF ok
       THEN /\ tmpDir' = [tmpDir EXCEPT ![j] = FreshTemp]
            /\ dirs' = dirs \cup {FreshTemp}
            /\ pc' = [pc EXCEPT ![j] = "MkdirAll"]
            /\ UNCHANGED ret
       ELSE /\ Fail(j, Errorf("creating temp dir", NoLogs, "io"), "done")
            /\ UNCHANGED <<tmpDir, dirs>>
    /\ UNCHANGED <<hostVars, fs, callVars, fontsDir, stderrBuf, sink, results,
                   callErr, fmtPath, fmtData, instVars, nOps>>

CompileSubdirs == <<"input", "output", "cache">>

\* the loop creating inputDir, outputDir, cacheDir: the first n succeed
CompileMkdirAll(j, n) ==
    /\ pc[j] = "MkdirAll"
    /\ kind[j] = "Compile"
    /\ dirs' = dirs \cup {Join(tmpDir[j], CompileSubdirs[k]) : k \in 1..n}
    /\ IF n < Len(CompileSubdirs)
       THEN Fail(j, Errorf("creating directory", NoLogs, "io"), "RemoveAll")
       ELSE /\ pc' = [pc EXCEPT ![j] = "Fonts"]
            /\ UNCHANGED ret
    /\ UNCHANGED <<hostVars, fs, callVars, localVars, instVars, nOps>>

\* fontsDir := cfg.fontsDir, or a fresh empty directory when that is ""
CompileFonts(j, ok) ==
    /\ pc[j] = "Fonts"
    /\ kind[j] = "Compile"
    /\ IF cfg[j].fontsDir = ""
       THEN IF ok
            THEN /\ fontsDir' = [fontsDir EXCEPT ![j] = Join(tmpDir[j], "fonts")]
                 /\ dirs' = MkdirAll(dirs, Join(tmpDir[j], "fonts"))
                 /\ pc' = [pc EXCEPT ![j] = "WriteFile"]
                 /\ UNCHANGED ret
            ELSE /\ Fail(j, Errorf("creating fonts dir", NoLogs, "io"), "RemoveAll")
                 /\ UNCHANGED <<fontsDir, dirs>>
       ELSE /\ ok
            /\ fontsDir' = [fontsDir EXCEPT ![j] = DirPath(cfg[j].fontsDir)]
            /\ pc' = [pc EXCEPT ![j] = "WriteFile"]
            /\ UNCHANGED <<ret, dirs>>
    /\ UNCHANGED <<hostVars, fs, callVars, tmpDir, stderrBuf, sink, results,
                   callErr, fmtPath, fmtData, instVars, nOps>>

\* os.WriteFile(texPath, texSource, 0o644)
CompileWriteFile(j, ok) ==
    /\ pc[j] = "WriteFile"
    /\ kind[j] = "Compile"
    /\ IF ok
       THEN /\ fs' = WriteFile(fs, Join(Join(tmpDir[j], "input"), "input.tex"),
                               texSource[j])
            /\ pc' = [pc EXCEPT ![j] = "Instantiate"]
            /\ UNCHANGED ret
       ELSE /\ Fail(j, Errorf("writing input.tex", NoLogs, "io"), "RemoveAll")
            /\ UNCHANGED fs
    /\ UNCHANGED <<hostVars, dirs, callVars, localVars, instVars, nOps>>

\* the fsConfig Compile builds
CompileFSConfig(j) ==
    FSConfig(Join(tmpDir[j], "input"), Join(tmpDir[j], "output"),
             cfg[j].bundleDir, fontsDir[j], Join(tmpDir[j], "cache"))

\* mod, err := c.runtime.InstantiateModule(ctx, c.compiled, modConfig);
\* defer mod.Close(ctx)
CompileInstantiate(j, ok, text) ==
    /\ pc[j] = "Instantiate"
    /\ kind[j] = "Compile"
    /\ ok => RuntimeOpen
    /\ IF ok
       THEN /\ Instantiated(j, CompileFSConfig(j))
            /\ pc' = [pc EXCEPT ![j] = "ExportedFunction"]
            /\ UNCHANGED <<ret, stderrBuf, sink>>
       ELSE /\ Fail(j, Errorf("instantiating module", NoLogs, "instantiate"), "RemoveAll")
            /\ StartWrote(j, text)
            /\ UNCHANGED <<insts, mod>>
    /\ UNCHANGED <<hostVars, fsVars, callVars, tmpDir, fontsDir, results, callErr,
                   fmtPath, fmtData, nOps>>

\* fn := mod.ExportedFunction("tectonic_compile_defaults")
CompileExportedFunction(j) ==
    /\ pc[j] = "ExportedFunction"
    /\ kind[j] = "Compile"
    /\ IF "tectonic_compile_defaults" \in host.exports
       THEN /\ pc' = [pc EXCEPT ![j] = "Call"]
            /\ UNCHANGED ret
       ELSE Fail(j, Errorf("exported function tectonic_compile_defaults not found",
                           NoLogs, Nil), "Close")
    /\ UNCHANGED <<hostVars, fsVars, callVars, localVars, instVars, nOps>>

\* a runtime built without WithCloseOnContextDone: a cancelled context does
\* not stop the guest
NotClosedOnContextDone(j) == FALSE

\* WithCloseOnContextDone(true): a call entered with a cancelled context
\* closes the module and fails without running the guest
ClosedOnContextDone(j) == ctxDone[j]

\* what the guest may write: a file name under a guest path
EngineTargets ==
    {<<"/output", "input.pdf">>, <<"/cache", "latex.fmt">>, <<"/cache", "tex.fmt">>,
     <<"/fonts", "font.otf">>, <<"/bundle", "latex.fmt">>}

\* what the guest may delete
EngineRemovals == EngineTargets \cup {<<"/fonts", "latex.fmt">>}

\* the running guest creates or overwrites a file through one of its mounts;
\* through a read-only mount the write is refused
EngineWrite(j, guest, name, data) ==
    /\ pc[j] = "Call"
    /\ ~ClosedOnContextDone(j)
    /\ insts[mod[j]].open
    /\ nOps[j] < MaxEngineOps
    /\ nOps' = [nOps EXCEPT ![j] = @ + 1]
    /\ LET m == MountAt(mod[j], guest)
       IN fs' = IF m.ro \/ m.host \notin dirs
                THEN fs
                ELSE WriteFile(fs, Join(m.host, name), data)
    /\ UNCHANGED <<hostVars, dirs, pc, callVars, localVars, instVars, ret>>

\* the running guest deletes a file through one of its mounts
EngineRemove(j, guest, name) ==
    /\ pc[j] = "Call"
    /\ ~ClosedOnContextDone(j)
    /\ insts[mod[j]].open
    /\ nOps[j] < MaxEngineOps
    /\ nOps' = [nOps EXCEPT ![j] = @ + 1]
    /\ LET m == MountAt(mod[j], guest)
       IN /\ Join(m.host, name) \in DOMAIN fs
          /\ fs' = IF m.ro THEN fs ELSE Unlink(fs, Join(m.host, name))
    /\ UNCHANGED <<hostVars, dirs, pc, callVars, localVars, instVars, ret>>

\* fn.Call(ctx) returns: a trap, or the number r the guest returned, and
\* the text the guest wrote to stderr; in a module that Close has closed
\* the call fails
CallReturns(j, trap, r, text) ==
    /\ pc[j] = "Call"
    /\ ClosedOnContextDone(j) => trap /\ text = ""
    /\ ~insts[mod[j]].open => trap
    /\ trap => r = 0
    /\ callErr' = [callErr EXCEPT ![j] =
                      IF ~trap THEN Nil
                      ELSE IF ClosedOnContextDone(j) THEN "context canceled"
                      ELSE IF ~insts[mod[j]].open THEN "module closed"
                      ELSE "wasm trap"]
    /\ results' = [results EXCEPT ![j] = IF trap THEN NoResults ELSE <<EncodeI32(r)>>]
    /\ stderrBuf' = [stderrBuf EXCEPT ![j] = text]
    /\ sink' = [sink EXCEPT ![j] = IF cfg[j].stderr THEN text ELSE @]

\* an interpretation that looks at callErr alone
CompileOutcomeTrapOnly(cErr, res, logs) ==
    IF cErr # Nil THEN CompileError(2, logs, cErr) ELSE NoError

\* the error Compile makes of the outcome of fn.Call, NoError when it goes on
CompileOutcome(cErr, res, logs) ==
    IF cErr # Nil THEN CompileError(2, logs, cErr)
    ELSE IF Len(res) > 0 /\ ~IsZero64(res[1])
         THEN CompileError(Int32(res[1]), logs, Nil)
         ELSE NoError

\* results, callErr := fn.Call(ctx) in Compile, and what Compile makes of it
CompileCallReturn(j, trap, r, text) ==
    /\ kind[j] = "Compile"
    /\ CallReturns(j, trap, r, text)
    /\ LET e == CompileOutcome(callErr'[j], results'[j], stderrBuf'[j])
       IN IF e # NoError
          THEN Fail(j, e, "Close")
          ELSE /\ pc' = [pc EXCEPT ![j] = "ReadFile"]
               /\ UNCHANGED ret
    /\ UNCHANGED <<hostVars, fsVars, callVars, tmpDir, fontsDir, fmtPath, fmtData,
                   instVars, nOps>>

\* a read of the output whose error is dropped
CompileReadFileUnchecked(j, ok) ==
    /\ pc[j] = "ReadFile"
    /\ kind[j] = "Compile"
    /\ LET pdfPath == Join(Join(tmpDir[j], "output"), "input.pdf")
       IN ret' = [ret EXCEPT ![j] =
                     Returned(IF pdfPath \in DOMAIN fs /\ ok THEN fs[pdfPath] ELSE <<>>,
                              NoError)]
    /\ pc' = [pc EXCEPT ![j] = "Close"]
    /\ UNCHANGED <<hostVars, fsVars, callVars, localVars, instVars, nOps>>

\* pdfBytes, err := os.ReadFile(pdfPath), and the return that follows
CompileReadFile(j, ok) ==
    /\ pc[j] = "ReadFile"
    /\ kind[j] = "Compile"
    /\ LET pdfPath == Join(Join(tmpDir[j], "output"), "input.pdf")
       IN IF pdfPath \in DOMAIN fs /\ ok
          THEN ret' = [ret EXCEPT ![j] = Returned(fs[pdfPath], NoError)]
          ELSE ret' = [ret EXCEPT ![j] =
                          Returned(<<>>, Errorf("reading output PDF", stderrBuf[j],
                                                IF ok THEN "not exist" ELSE "io"))]
    /\ pc' = [pc EXCEPT ![j] = "Close"]
    /\ UNCHANGED <<hostVars, fsVars, callVars, localVars, instVars, nOps>>

\* deferred calls in the order of their defer statements: the tree is
\* removed while the instance is still open
CompileCloseRemovesFirst(j) ==
    /\ pc[j] = "Close"
    /\ kind[j] = "Compile"
    /\ dirs' = RemoveAllDirs(dirs, tmpDir[j])
    /\ fs' = RemoveAllFiles(fs, tmpDir[j])
    /\ pc' = [pc EXCEPT ![j] = "RemoveAll"]
    /\ UNCHANGED <<hostVars, callVars, localVars, instVars, ret, nOps>>

\* the deferred mod.Close(ctx) of Compile
CompileClose(j) ==
    /\ pc[j] = "Close"
    /\ kind[j] = "Compile"
    /\ ModClose(j)
    /\ pc' = [pc EXCEPT ![j] = "RemoveAll"]
    /\ UNCHANGED <<hostVars, fsVars, callVars, localVars, mod, ret, nOps>>

\* the deferred os.RemoveAll(tmpDir) of Compile, and the call returns
CompileRemoveAll(j) ==
    /\ pc[j] = "RemoveAll"
    /\ kind[j] = "Compile"
    /\ dirs' = RemoveAllDirs(dirs, tmpDir[j])
    /\ fs' = RemoveAllFiles(fs, tmpDir[j])
    /\ pc' = [pc EXCEPT ![j] = "done"]
    /\ UNCHANGED <<hostVars, callVars, localVars, instVars, ret, nOps>>

\* the caller has taken the result and is free to make another call; the
\* closed instance of the finished call is unreachable
CallerContinues(j) ==
    /\ pc[j] = "done"
    /\ pc' = [pc EXCEPT ![j] = "idle"]
    /\ ResetLocals(j)
    /\ insts' = [i \in DOMAIN insts \ {mod[j]} |-> insts[i]]
    /\ UNCHANGED <<hostVars, fsVars>>

\* ------------------------------------------------------------ GenerateFormat
\* GenerateFormat is called: it fails at once on an empty bundleDir and
\* returns at once when latex.fmt exists there
GenerateFormatCall(j, bundleDir, done) ==
    /\ pc[j] = "idle"
    /\ kind' = [kind EXCEPT ![j] = "GenerateFormat"]
    /\ cfg' = [cfg EXCEPT ![j] = [bundleDir |-> bundleDir, fontsDir |-> "",
                                  stderr |-> FALSE]]
    /\ ctxDone' = [ctxDone EXCEPT ![j] = done]
    /\ IF bundleDir = ""
       THEN Fail(j, Errorf("no bundle directory specified", NoLogs, Nil), "done")
       ELSE IF StatOk(dirs, fs, Join(DirPath(bundleDir), "latex.fmt"))
            THEN /\ ret' = [ret EXCEPT ![j] = Returned(<<>>, NoError)]
                 /\ pc' = [pc EXCEPT ![j] = "done"]
            ELSE /\ pc' = [pc EXCEPT ![j] = "MkdirTemp"]
                 /\ UNCHANGED ret
    /\ UNCHANGED <<hostVars, fsVars, texSource, localVars, instVars, nOps>>

\* tmpDir, err := os.MkdirTemp("", "tecgonic-fmt-*"); defer os.RemoveAll(tmpDir)
GenerateFormatMkdirTemp(j, ok) ==
    /\ pc[j] = "MkdirTemp"
    /\ kind[j] = "GenerateFormat"
    /\ IF ok
       THEN /\ tmpDir' = [tmpDir EXCEPT ![j] = FreshTemp]
            /\ dirs' = dirs \cup {FreshTemp}
            /\ pc' = [pc EXCEPT ![j] = "MkdirAll"]
            /\ UNCHANGED ret
       ELSE /\ Fail(j, Errorf("creating temp dir", NoLogs, "io"), "done")
            /\ UNCHANGED <<tmpDir, dirs>>
    /\ UNCHANGED <<hostVars, fs, callVars, fontsDir, stderrBuf, sink, results,
                   callErr, fmtPath, fmtData, instVars, nOps>>

GenerateFormatSubdirs == <<"input", "output", "cache", "fonts">>

\* the loop creating inputDir, outputDir, cacheDir, fontsDir: the first n succeed
GenerateFormatMkdirAll(j, n) ==
    /\ pc[j] = "MkdirAll"
    /\ kind[j] = "GenerateFormat"
    /\ dirs' = dirs \cup {Join(tmpDir[j], GenerateFormatSubdirs[k]) : k \in 1..n}
    /\ fontsDir' = [fontsDir EXCEPT ![j] = Join(tmpDir[j], "fonts")]
    /\ IF n < Len(GenerateFormatSubdirs)
       THEN Fail(j, Errorf("creating directory", NoLogs, "io"), "RemoveAll")
       ELSE /\ pc' = [pc EXCEPT ![j] = "Instantiate"]
            /\ UNCHANGED ret
    /\ UNCHANGED <<hostVars, fs, callVars, tmpDir, stderrBuf, sink, results,
                   callErr, fmtPath, fmtData, instVars, nOps>>

\* the fsConfig GenerateFormat builds
GenerateFormatFSConfig(j) ==
    FSConfig(Join(tmpDir[j], "input"), Join(tmpDir[j], "output"),
             cfg[j].bundleDir, fontsDir[j], Join(tmpDir[j], "cache"))

\* mod, err := c.runtime.InstantiateModule(ctx, c.compiled, modConfig);
\* defer mod.Close(ctx)
GenerateFormatInstantiate(j, ok, text) ==
    /\ pc[j] = "Instantiate"
    /\ kind[j] = "GenerateFormat"
    /\ ok => RuntimeOpen
    /\ IF ok
       THEN /\ Instantiated(j, GenerateFormatFSConfig(j))
            /\ pc' = [pc EXCEPT ![j] = "ExportedFunction"]
            /\ UNCHANGED <<ret, stderrBuf, sink>>
       ELSE /\ Fail(j, Errorf("instantiating module for format generation",
                              NoLogs, "instantiate"), "RemoveAll")
            /\ StartWrote(j, text)
            /\ UNCHANGED <<insts, mod>>
    /\ UNCHANGED <<hostVars, fsVars, callVars, tmpDir, fontsDir, results, callErr,
                   fmtPath, fmtData, nOps>>

\* fn := mod.ExportedFunction("tectonic_generate_format")
GenerateFormatExportedFunction(j) ==
    /\ pc[j] = "ExportedFunction"
    /\ kind[j] = "GenerateFormat"
    /\ IF "tectonic_generate_format" \in host.exports
       THEN /\ pc' = [pc EXCEPT ![j] = "Call"]
            /\ UNCHANGED ret
       ELSE Fail(j, Errorf("exported function tectonic_generate_format not found",
                           NoLogs, Nil), "Close")
    /\ UNCHANGED <<hostVars, fsVars, callVars, localVars, instVars, nOps>>

\* the error GenerateFormat makes of the outcome of fn.Call
GenerateFormatOutcome(cErr, res, logs) ==
    IF cErr # Nil THEN CompileError(2, logs, cErr)
    ELSE IF Len(res) > 0 /\ ~IsZero64(res[1])
         THEN CompileError(Int32(res[1]), logs, Nil)
         ELSE NoError

\* results, callErr := fn.Call(ctx) in GenerateFormat, and what it makes of it
GenerateFormatCallReturn(j, trap, r, text) ==
    /\ kind[j] = "GenerateFormat"
    /\ CallReturns(j, trap, r, text)
    /\ LET e == GenerateFormatOutcome(callErr'[j], results'[j], stderrBuf'[j])
       IN IF e # NoError
          THEN Fail(j, e, "Close")
          ELSE /\ pc' = [pc EXCEPT ![j] = "Stat"]
               /\ UNCHANGED ret
    /\ UNCHANGED <<hostVars, fsVars, callVars, tmpDir, fontsDir, fmtPath, fmtData,
                   instVars, nOps>>

\* file names in the order os.ReadDir returns them (sorted by name)
NameOrder == <<"SHA256SUM", "font.otf", "input.pdf", "input.tex", "latex.fmt", "tex.fmt">>

\* os.ReadDir of a directory of regular files
ReadDir(f, d) == SelectSeq(NameOrder, LAMBDA n : Join(d, n) \in DOMAIN f)

\* a GenerateFormat that looks for cache/latex.fmt only
GenerateFormatStatNoScan(j) ==
    /\ pc[j] = "Stat"
    /\ LET cacheDir == Join(tmpDir[j], "cache")
       IN IF StatOk(dirs, fs, Join(cacheDir, "latex.fmt"))
          THEN /\ fmtPath' = [fmtPath EXCEPT ![j] = Join(cacheDir, "latex.fmt")]
               /\ pc' = [pc EXCEPT ![j] = "ReadFile"]
               /\ UNCHANGED ret
          ELSE /\ Fail(j, Errorf("no format file generated in cache",
                                 stderrBuf[j], Nil), "Close")
               /\ UNCHANGED fmtPath
    /\ UNCHANGED <<hostVars, fsVars, callVars, tmpDir, fontsDir, stderrBuf, sink,
                   results, callErr, fmtData, instVars, nOps>>

\* locating the generated format file: cache/latex.fmt, or else the first
\* entry of the cache directory with extension .fmt
GenerateFormatStat(j) ==
    /\ pc[j] = "Stat"
    /\ LET cacheDir == Join(tmpDir[j], "cache")
           found == SelectSeq(ReadDir(fs, cacheDir), LAMBDA n : Ext(n) = ".fmt")
       IN IF StatOk(dirs, fs, Join(cacheDir, "latex.fmt"))
          THEN /\ fmtPath' = [fmtPath EXCEPT ![j] = Join(cacheDir, "latex.fmt")]
               /\ pc' = [pc EXCEPT ![j] = "ReadFile"]
               /\ UNCHANGED ret
          ELSE IF found # <<>>
               THEN /\ fmtPath' = [fmtPath EXCEPT ![j] = Join(cacheDir, Head(found))]
                    /\ pc' = [pc EXCEPT ![j] = "ReadFile"]
                    /\ UNCHANGED ret
               ELSE /\ Fail(j, Errorf("no format file generated in cache",
                                      stderrBuf[j], Nil), "Close")
                    /\ UNCHANGED fmtPath
    /\ UNCHANGED <<hostVars, fsVars, callVars, tmpDir, fontsDir, stderrBuf, sink,
                   results, callErr, fmtData, instVars, nOps>>

\* fmtData, err := os.ReadFile(fmtPath)
GenerateFormatReadFile(j, ok) ==
    /\ pc[j] = "ReadFile"
    /\ kind[j] = "GenerateFormat"
    /\ IF ok /\ fmtPath[j] \in DOMAIN fs
       THEN /\ fmtData' = [fmtData EXCEPT ![j] = fs[fmtPath[j]]]
            /\ pc' = [pc EXCEPT ![j] = "WriteFile"]
            /\ UNCHANGED ret
       ELSE /\ Fail(j, Errorf("reading generated format file", NoLogs, "io"), "Close")
            /\ UNCHANGED fmtData
    /\ UNCHANGED <<hostVars, fsVars, callVars, tmpDir, fontsDir, stderrBuf, sink,
                   results, callErr, fmtPath, instVars, nOps>>

\* os.WriteFile(bundleDir/latex.fmt, fmtData, 0o644) opens the file, truncating it
GenerateFormatWriteFile(j, ok) ==
    /\ pc[j] = "WriteFile"
    /\ kind[j] = "GenerateFormat"
    /\ IF ok
       THEN /\ fs' = Truncate(fs, Join(DirPath(cfg[j].bundleDir), "latex.fmt"))
            /\ pc' = [pc EXCEPT ![j] = "Write"]
            /\ UNCHANGED ret
       ELSE /\ Fail(j, Errorf("writing format file to bundle dir", NoLogs, "io"), "Close")
            /\ UNCHANGED fs
    /\ UNCHANGED <<hostVars, dirs, callVars, localVars, instVars, nOps>>

\* os.WriteFile writes fmtData to the opened file and closes it; return nil
GenerateFormatWrite(j) ==
    /\ pc[j] = "Write"
    /\ fs' = WriteAt0(fs, Join(DirPath(cfg[j].bundleDir), "latex.fmt"), fmtData[j])
    /\ ret' = [ret EXCEPT ![j] = Returned(<<>>, NoError)]
    /\ pc' = [pc EXCEPT ![j] = "Close"]
    /\ UNCHANGED <<hostVars, dirs, callVars, localVars, instVars, nOps>>

\* the deferred mod.Close(ctx) of GenerateFormat
GenerateFormatClose(j) ==
    /\ pc[j] = "Close"
    /\ kind[j] = "GenerateFormat"
    /\ ModClose(j)
    /\ pc' = [pc EXCEPT ![j] = "RemoveAll"]
    /\ UNCHANGED <<hostVars, fsVars, callVars, localVars, mod, ret, nOps>>

\* the deferred os.RemoveAll(tmpDir) of GenerateFormat, and the call returns
GenerateFormatRemoveAll(j) ==
    /\ pc[j] = "RemoveAll"
    /\ kind[j] = "GenerateFormat"
    /\ dirs' = RemoveAllDirs(dirs, tmpDir[j])
    /\ fs' = RemoveAllFiles(fs, tmpDir[j])
    /\ pc' = [pc EXCEPT ![j] = "done"]
    /\ UNCHANGED <<hostVars, callVars, localVars, instVars, ret, nOps>>

\* ------------------------------------------------------------ specification
\* the steps of caller j, with the inputs of its calls, the outcomes of
\* its system calls and the behaviour of the guest drawn from the sets in
JobNext(j, in) ==
    \/ /\ pc[j] = "idle"
       /\ \E src \in in.srcs, opts \in in.optSeqs, done \in in.dones :
             CompileCall(j, src, opts, done)
    \/ \E ok \in in.oks : CompileMkdirTemp(j, ok)
    \/ \E n \in 0..Len(CompileSubdirs) :
          /\ n < Len(CompileSubdirs) => FALSE \in in.oks
          /\ CompileMkdirAll(j, n)
    \/ \E ok \in in.oks : CompileFonts(j, ok)
    \/ \E ok \in in.oks : CompileWriteFile(j, ok)
    \/ /\ pc[j] = "Instantiate"
       /\ \E ok \in in.oks, text \in in.texts \cup {""} :
             /\ ok => text = ""
             /\ CompileInstantiate(j, ok, text)
    \/ CompileExportedFunction(j)
    \/ /\ pc[j] = "Call"
       /\ \E t \in in.writes, data \in in.datas : EngineWrite(j, t[1], t[2], data)
    \/ /\ pc[j] = "Call"
       /\ \E t \in in.removes : EngineRemove(j, t[1], t[2])
    \/ /\ pc[j] = "Call"
       /\ \E trap \in in.traps, r \in in.codes, text \in in.texts :
             CompileCallReturn(j, trap, r, text)
    \/ \E ok \in in.oks : CompileReadFile(j, ok)
    \/ CompileClose(j)
    \/ CompileRemoveAll(j)
    \/ /\ pc[j] = "idle"
       /\ \E b \in in.bundles, done \in in.dones : GenerateFormatCall(j, b, done)
    \/ \E ok \in in.oks : GenerateFormatMkdirTemp(j, ok)
    \/ \E n \in 0..Len(GenerateFormatSubdirs) :
          /\ n < Len(GenerateFormatSubdirs) => FALSE \in in.oks
          /\ GenerateFormatMkdirAll(j, n)
    \/ /\ pc[j] = "Instantiate"
       /\ \E ok \in in.oks, text \in in.texts \cup {""} :
             /\ ok => text = ""
             /\ GenerateFormatInstantiate(j, ok, text)
    \/ GenerateFormatExportedFunction(j)
    \/ /\ pc[j] = "Call"
       /\ \E trap \in in.traps, r \in in.codes, text \in in.texts :
             GenerateFormatCallReturn(j, trap, r, text)
    \/ GenerateFormatStat(j)
    \/ \E ok \in in.oks : GenerateFormatReadFile(j, ok)
    \/ \E ok \in in.oks : GenerateFormatWriteFile(j, ok)
    \/ GenerateFormatWrite(j)
    \/ GenerateFormatClose(j)
    \/ GenerateFormatRemoveAll(j)
    \/ CallerContinues(j)

\* one caller making one call after another, with every input and outcome
SeqInputs ==
    [srcs |-> Sources, optSeqs |-> OptSeqs, dones |-> BOOLEAN, oks |-> BOOLEAN,
     writes |-> EngineTargets, removes |-> EngineRemovals, datas |-> EngineData,
     traps |-> BOOLEAN, codes |-> ExitCodes, texts |-> LogTexts,
     bundles |-> BundleArgs]

Next == JobNext(1, SeqInputs)

Spec == Init /\ [][Next]_vars

\* files with the names in ns in directory p
FilesNamed(p, ns) == [q \in {Join(p, n) : n \in ns} |-> <<0>>]

\* the names of n files that no archive holds
OldNames(n) == {ToString(1000 + i) : i \in 1..n}

\* one PrepareBundle call on destination D, which does not exist, is empty,
\* holds the marker, or holds one file less than MinFiles from earlier use
InitBundle ==
    /\ host = NoCompiler
    /\ \E there \in BOOLEAN, ns \in {{}, {"SHA256SUM"}, OldNames(MinFiles - 1),
                                     OldNames(MinFiles - 1) \cup {"SHA256SUM"}} :
           /\ ~there => ns = {}
           /\ dirs = {<<"tmp">>} \cup (IF there THEN {<<"D">>} ELSE {})
           /\ fs = FilesNamed(<<"D">>, ns)
    /\ JobsIdle
    /\ newPc = "idle"
    /\ ccfg = NoCompilerConfig
    /\ rt = NoRuntime
    /\ newRet = NewReturned(FALSE, NoError)
    /\ BundleIdle

NextBundle ==
    \/ /\ pbPc = "idle"
       /\ \E url \in {"", "u"}, force \in BOOLEAN : PrepareBundleCall("D", url, force)
    \/ \E ok \in BOOLEAN : PrepareBundleMkdirAll(ok)
    \/ /\ pbPc = "Do"
       /\ \E sent \in BOOLEAN, status \in {200, 404}, archive \in Archives :
             /\ ~sent => status = 404 /\ archive = <<>>
             /\ status # 200 => archive = <<>>
             /\ PrepareBundleDo(sent, status, archive)
    \/ \E ok \in BOOLEAN : PrepareBundleNext(ok)
    \/ \E ok \in BOOLEAN : PrepareBundleReadDir(ok)

SpecBundle == InitBundle /\ [][NextBundle]_vars

\* a process that creates a Compiler, closes it and creates another; the
\* directory K may hold a compiled module that some process cached there
InitNew ==
    /\ host = NoCompiler
    /\ dirs = {<<"tmp">>, <<"B">>, <<"F">>, <<"K">>}
    /\ fs \in {(<<"B", "SHA256SUM">> :> <<0>>),
               (<<"B", "SHA256SUM">> :> <<0>>) @@ (CachedModule("K") :> <<9>>)}
    /\ JobsIdle
    /\ newPc = "idle"
    /\ ccfg = NoCompilerConfig
    /\ rt = NoRuntime
    /\ newRet = NewReturned(FALSE, NoError)
    /\ BundleIdle

NextNew ==
    \/ \E opts \in CompilerOptSeqs : NewCall(opts)
    \/ \E ok \in BOOLEAN : NewInstantiate(ok)
    \/ \E ok \in BOOLEAN, exports \in {AllExports, {}} : NewCompileModule(ok, exports)
    \/ Close
    \/ NewCallerContinues

SpecNew == InitNew /\ [][NextNew]_vars

\* one caller making calls on a host whose defaults name a bundle and a font
\* directory, while another goroutine calls Close at any moment
CloseInputs ==
    [srcs |-> {<<1>>},
     optSeqs |-> {<<>>, <<[opt |-> "WithFontsDir", dir |-> ""]>>},
     dones |-> {FALSE}, oks |-> BOOLEAN,
     writes |-> {<<"/output", "input.pdf">>, <<"/cache", "latex.fmt">>,
                 <<"/fonts", "font.otf">>},
     removes |-> {<<"/fonts", "font.otf">>}, datas |-> {<<7>>},
     traps |-> BOOLEAN, codes |-> {0, 1}, texts |-> {"log"},
     bundles |-> {"B"}]

InitClose ==
    /\ Init
    /\ host.defaultBundleDir = "B"
    /\ host.defaultFontsDir = "F"
    /\ host.exports = AllExports

NextClose ==
    \/ JobNext(1, CloseInputs)
    \/ Close

SpecClose == InitClose /\ [][NextClose]_vars

\* MaxJobs callers making calls concurrently on a host whose defaults name a
\* bundle and a font directory, with no failing system call; idle callers
\* are interchangeable, so the lowest one calls next
ConcInputs ==
    [srcs |-> {<<1>>},
     optSeqs |-> {<<>>, <<[opt |-> "WithFontsDir", dir |-> ""]>>},
     dones |-> {FALSE}, oks |-> {TRUE},
     writes |-> {<<"/output", "input.pdf">>, <<"/cache", "latex.fmt">>,
                 <<"/fonts", "font.otf">>},
     removes |-> {<<"/fonts", "font.otf">>}, datas |-> {<<7>>},
     traps |-> {FALSE}, codes |-> {0, 1}, texts |-> {"log"},
     bundles |-> {"B"}]

InitConc ==
    /\ Init
    /\ host.defaultBundleDir = "B"
    /\ host.defaultFontsDir = "F"
    /\ host.exports = AllExports

NextConc ==
    \E j \in Jobs :
        /\ pc[j] = "idle" => \A k \in 1..(j - 1) : pc[k] # "idle"
        /\ JobNext(j, ConcInputs)

SpecConc == InitConc /\ [][NextConc]_vars


\* ------------------------------------------------------------ properties
\* what is left of the private tree of caller j
TreeOf(j) ==
    {d \in dirs : IsPrefix(tmpDir[j], d)}
        \cup {p \in DOMAIN fs : IsPrefix(tmpDir[j], p)}

\* fn.Call of caller j has returned
CallReturned(j) ==
    /\ pc[j] \in {"Stat", "ReadFile", "WriteFile", "Write", "Close", "RemoveAll", "done"}
    /\ callErr[j] # Nil \/ results[j] # NoResults

\* the guest of caller j returned zero
ReturnedZero(j) ==
    callErr[j] = Nil /\ results[j] # NoResults /\ IsZero64(results[j][1])

\* C1: once a call that created its private temporary tree has returned, by
\* whichever exit path, nothing of that tree is left on the host
C1_TreeRemovedOnReturn ==
    \A j \in Jobs :
        (pc[j] = "done" /\ tmpDir[j] # <<>>) => TreeOf(j) = {}

\* a Compile that ran its guest to success has returned, its tree created
C1_Witness ==
    \E j \in Jobs :
        /\ pc[j] = "done"
        /\ kind[j] = "Compile"
        /\ tmpDir[j] # <<>>
        /\ mod[j] # 0
        /\ ret[j].err = NoError

\* the host directories an instance mounts
HostsOf(i) == {m.host : m \in MountsOf(i)}

\* the host directories an instance mounts read-write
WritableHostsOf(i) == {m.host : m \in {n \in MountsOf(i) : ~n.ro}}

\* callers whose sandbox instance is live
Live == {j \in Jobs : mod[j] # 0 /\ insts[mod[j]].open}

\* C2: two jobs never use the same instance, and no directory that one
\* job's instance mounts read-write is mounted by another job's instance
C2_NoSharedWritableDir ==
    \A j, k \in Live :
        j # k => /\ mod[j] # mod[k]
                 /\ WritableHostsOf(mod[j]) \cap HostsOf(mod[k]) = {}

\* the files of bundle directory b, with their contents
BundleFiles(b) ==
    LET under == {p \in DOMAIN fs : IsPrefix(DirPath(b), p)}
    IN [p \in under |-> fs[p]]

\* C3: whatever bundle and font options a Compile call was given, its
\* instance mounts the bundle directory read-only only, and no step of its
\* guest changes a file of the bundle directory
C3_BundleReadOnlyInCompile ==
    [][\A j \in Jobs :
           (kind[j] = "Compile" /\ pc[j] = "Call" /\ pc'[j] = "Call") =>
               /\ \A m \in MountsOf(mod[j]) :
                      m.host = DirPath(cfg[j].bundleDir) => m.ro
               /\ BundleFiles(cfg[j].bundleDir)' = BundleFiles(cfg[j].bundleDir)]_vars

\* C4: while a job's live instance mounts a bundle directory, no other call
\* is in the middle of writing a file of that directory
C4_NoBundleWriteWhileMounted ==
    \A w \in Jobs : \A j \in Live :
        (w # j /\ pc[w] = "Write") =>
            DirPath(cfg[w].bundleDir) \notin HostsOf(mod[j])

\* C5: after fn.Call returned in Compile, a trap gave a CompileError with
\* code 2, the captured logs and the trap as cause; a nonzero result r gave
\* a CompileError with code r, the captured logs and no cause (code 1 being
\* a TeX error); and only a zero result went on to read the output
C5_CallResultClassified ==
    \A j \in Jobs :
        (kind[j] = "Compile" /\ CallReturned(j)) =>
            /\ callErr[j] # Nil =>
                   ret[j].err = CompileError(2, stderrBuf[j], callErr[j])
            /\ (callErr[j] = Nil /\ ~IsZero64(results[j][1])) =>
                   /\ ret[j].err.kind = "CompileError"
                   /\ EncodeI32(ret[j].err.ExitCode) = results[j][1]
                   /\ ret[j].err.Logs = stderrBuf[j]
                   /\ Unwrap(ret[j].err) = Nil
                   /\ results[j][1] = EncodeI32(1) =>
                          IsTexError(ret[j].err) /\ ~IsPanic(ret[j].err)
            /\ pc[j] = "ReadFile" => ReturnedZero(j)
            /\ ret[j].err.kind \in {Nil, "reading output PDF"} => ReturnedZero(j)

\* a Compile whose guest returned 1 with logs has returned a TeX error
C5_Witness ==
    \E j \in Jobs :
        /\ pc[j] = "done"
        /\ kind[j] = "Compile"
        /\ results[j] = <<EncodeI32(1)>>
        /\ ret[j].err = CompileError(1, "log", Nil)

\* C6: every CompileError with exit code 2 that a call returned carries a
\* cause
C6_EngineFaultHasCause ==
    \A j \in Jobs :
        (pc[j] = "done" /\ IsPanic(ret[j].err)) => Unwrap(ret[j].err) # Nil

\* C7: before the private tree is removed, a Compile that returns success
\* had a zero result and returns exactly the bytes of output/input.pdf, and
\* a zero result without that file returns an error that carries the logs
C7_NoFalseSuccess ==
    \A j \in Jobs :
        LET pdfPath == Join(Join(tmpDir[j], "output"), "input.pdf")
        IN /\ (kind[j] = "Compile" /\ pc[j] \in {"Close", "RemoveAll"}) =>
                  /\ ret[j].err = NoError =>
                         /\ ReturnedZero(j)
                         /\ pdfPath \in DOMAIN fs
                         /\ ret[j].bytes = fs[pdfPath]
                  /\ (ReturnedZero(j) /\ pdfPath \notin DOMAIN fs) =>
                         /\ ret[j].err.kind = "reading output PDF"
                         /\ ret[j].err.Logs = stderrBuf[j]
                         /\ ret[j].bytes = <<>>
           /\ (kind[j] = "Compile" /\ pc[j] = "done" /\ ret[j].err = NoError) =>
                  ReturnedZero(j)

\* a Compile is about to return the two bytes its guest wrote to the output
C7_Witness ==
    \E j \in Jobs :
        /\ pc[j] = "Close"
        /\ kind[j] = "Compile"
        /\ ret[j] = Returned(<<8, 8>>, NoError)

\* C8: a Compile call whose options and host defaults give no bundle
\* directory returns the configuration error in the step of the call, with
\* no directory, file or instance created
C8_ConfigErrorBeforeEffects ==
    [][\A j \in Jobs :
           (pc[j] = "idle" /\ kind'[j] = "Compile" /\ cfg'[j].bundleDir = "") =>
               /\ pc'[j] = "done"
               /\ ret'[j] = Returned(<<>>, Errorf("no bundle directory specified",
                                                  NoLogs, Nil))
               /\ tmpDir'[j] = <<>>
               /\ mod'[j] = 0
               /\ UNCHANGED <<dirs, fs, insts>>]_vars

\* a Compile call has returned the configuration error
C8_Witness ==
    \E j \in Jobs :
        /\ pc[j] = "done"
        /\ kind[j] = "Compile"
        /\ cfg[j].bundleDir = ""
        /\ ret[j].err.kind = "no bundle directory specified"

\* C9: a Compile call returns the configuration error only when the host
\* has no default bundle directory
C9_NoConfigErrorWithHostDefault ==
    \A j \in Jobs :
        (/\ pc[j] = "done"
         /\ kind[j] = "Compile"
         /\ ret[j].err.kind = "no bundle directory specified")
            => host.defaultBundleDir = ""

\* latex.fmt exists in bundle directory b
HasFormat(b) == StatOk(dirs, fs, Join(DirPath(b), "latex.fmt"))

\* C10: a GenerateFormat call on a bundle directory that has latex.fmt
\* returns success at once and changes nothing; a successful GenerateFormat
\* leaves latex.fmt in its bundle directory; and latex.fmt, once there,
\* stays, so that every later GenerateFormat call on it is such a no-op
C10_GenerateFormatIdempotent ==
    [][/\ \A j \in Jobs :
              /\ (/\ pc[j] = "idle"
                  /\ kind'[j] = "GenerateFormat"
                  /\ HasFormat(cfg'[j].bundleDir)) =>
                     /\ pc'[j] = "done"
                     /\ ret'[j] = Returned(<<>>, NoError)
                     /\ UNCHANGED <<dirs, fs, insts, mod>>
              /\ (/\ pc[j] # "done"
                  /\ pc'[j] = "done"
                  /\ kind'[j] = "GenerateFormat"
                  /\ ret'[j].err = NoError) => HasFormat(cfg[j].bundleDir)'
       /\ \A b \in UserDirs : HasFormat(b) => HasFormat(b)']_vars

\* the marker file SHA256SUM exists in PrepareBundle's destDir
HasMarker == StatOk(dirs, fs, Join(DirPath(pbArgs.destDir), "SHA256SUM"))

\* C11: a PrepareBundle call with force = false on a destination that holds
\* the marker SHA256SUM returns success in the step of the call, with no
\* HTTP request issued and no directory or file created or written; with
\* force = true the call goes on to the download although the marker
\* exists; and a call that returned without any request was such a skip or
\* failed to create the destination
C11_MarkerSkipsDownload ==
    [][/\ (pbPc = "idle" /\ pbPc' # "idle") =>
              /\ (~pbArgs'.force /\ HasMarker') =>
                     /\ pbPc' = "done"
                     /\ pbRet' = NoError
                     /\ nReqs' = 0
                     /\ UNCHANGED <<dirs, fs>>
              /\ pbArgs'.force => pbPc' = "MkdirAll"
       /\ (pbPc = "Do" /\ pbPc' # "Do") => nReqs' = 1
       /\ (pbPc' = "done" /\ nReqs' = 0) =>
              \/ pbRet' = NoError /\ ~pbArgs'.force /\ HasMarker'
              \/ pbRet'.kind = "creating bundle dir"]_vars

\* a call with force = false has returned success on a destination with the
\* marker, without a request
C11_Witness ==
    /\ pbPc = "done"
    /\ ~pbArgs.force
    /\ HasMarker
    /\ pbRet = NoError
    /\ nReqs = 0

\* C12: a PrepareBundle call that downloaded and returned success has
\* extracted at least MinFiles files, whatever the destination directory
\* held before (files counts the writes, so entries that flatten to one
\* base name count once each and the bound is generous)
C12_SuccessMeansEnoughExtracted ==
    (pbPc = "done" /\ pbRet = NoError /\ nReqs > 0) => files >= MinFiles

\* the content the decompress-or-fallback policy gives a payload: the
\* decompressed data of a valid gzip stream, the payload itself otherwise
PolicyContent(p) ==
    IF GzipHeader(p) /\ Gunzip(p).ok THEN Gunzip(p).data ELSE p

\* C13: a turn of the extraction loop skips a non-regular entry without
\* touching a file; for a regular entry it either fails to create the
\* destination file and changes nothing, or leaves at destDir/Base(name) the
\* decompressed payload when the payload is valid gzip and the payload's
\* bytes otherwise, every other file unchanged, and goes on without an error
C13_DecompressOrFallback ==
    [][(pbPc = "Next" /\ body # <<>>) =>
          LET header == Head(body)
              destPath == DestPath(pbArgs.destDir, header.Name)
          IN /\ header.Typeflag = "dir" =>
                    /\ UNCHANGED <<fs, files, pbRet>>
                    /\ body' = Tail(body)
             /\ header.Typeflag = "reg" =>
                    \/ pbRet'.kind = "writing" /\ fs' = fs
                    \/ /\ pbRet' = NoError
                       /\ pbPc' = "Next"
                       /\ files' = files + 1
                       /\ destPath \in DOMAIN fs'
                       /\ fs'[destPath] = PolicyContent(header.data)
                       /\ \A q \in DOMAIN fs : q # destPath => q \in DOMAIN fs' /\ fs'[q] = fs[q]]_vars

\* C14: a Compile call entered with a cancelled context never reaches the
\* read of the output, and what it returns is an error and no bytes
C14_CancelledCompileFails ==
    \A j \in Jobs :
        (kind[j] = "Compile" /\ ctxDone[j]) =>
            /\ pc[j] # "ReadFile"
            /\ pc[j] \in {"Close", "RemoveAll", "done"} =>
                   ret[j].err # NoError /\ ret[j].bytes = <<>>

\* a Compile call with a cancelled context got as far as fn.Call, which
\* failed on the closed module, and has returned
C14_Witness ==
    \E j \in Jobs :
        /\ kind[j] = "Compile"
        /\ ctxDone[j]
        /\ pc[j] = "done"
        /\ callErr[j] = "context canceled"
        /\ IsPanic(ret[j].err)

\* the host files the instance of caller j sees through its mounts
VisibleTo(j) ==
    LET seen == {p \in DOMAIN fs : \E h \in HostsOf(mod[j]) : IsPrefix(h, p)}
    IN [p \in seen |-> fs[p]]

\* C15: a step that is not a step of caller j leaves everything the live
\* instance of j works on as it was: the files it sees through its mounts,
\* its source and configuration, and the host's module and configuration;
\* so what j returns depends on its own input alone
C15_CallsIndependent ==
    [][\A j \in Live :
          (pc'[j] = pc[j] /\ nOps'[j] = nOps[j]) =>
              /\ VisibleTo(j)' = VisibleTo(j)
              /\ texSource'[j] = texSource[j]
              /\ cfg'[j] = cfg[j]
              /\ host' = host]_vars

\* C16: a New given WithCompilationCache(dir) that succeeds leaves the
\* compiled module in the cache of dir, and loads it from there instead of
\* compiling when an earlier New had left it there
C16_CompilationCacheUsed ==
    [][(newPc = "CompileModule" /\ newPc' = "done" /\ newRet'.compiler
            /\ ccfg.compilationCacheDir # "") =>
          /\ CachedModule(ccfg.compilationCacheDir) \in DOMAIN fs'
          /\ CachedModule(ccfg.compilationCacheDir) \in DOMAIN fs =>
                 rt'.compiled = "loaded"]_vars

\* the diagnostic texts and wrapped causes a CompileError may carry
ErrorTexts == LogTexts \cup {NoLogs}
ErrorCauses == {Nil, "wasm trap", "context canceled"}

\* C17: for every CompileError a call returns, IsTexError and IsPanic give
\* the same answers for every error of the same exit code whatever its
\* Logs and WasmErr; IsTexError holds exactly for code 1 and IsPanic
\* exactly for code 2, so every other code is neither
C17_ClassifiedByCodeAlone ==
    \A j \in Jobs :
        (pc[j] = "done" /\ ret[j].err.kind = "CompileError") =>
            LET e == ret[j].err
            IN /\ IsTexError(e) <=> e.ExitCode = 1
               /\ IsPanic(e) <=> e.ExitCode = 2
               /\ \A l \in ErrorTexts, c \in ErrorCauses :
                      LET v == [e EXCEPT !.Logs = l, !.WasmErr = c]
                      IN /\ IsTexError(v) = IsTexError(e)
                         /\ IsPanic(v) = IsPanic(e)

\* a call has returned a CompileError whose code is neither 1 nor 2, which
\* is classified as neither
C17_Witness ==
    \E j \in Jobs :
        /\ pc[j] = "done"
        /\ ret[j].err.kind = "CompileError"
        /\ ret[j].err.ExitCode \notin {1, 2}
        /\ ~IsTexError(ret[j].err)
        /\ ~IsPanic(ret[j].err)

\* the failures of Compile and GenerateFormat at or after the instantiation
\* of the sandbox
SandboxFailures ==
    {"instantiating module", "instantiating module for format generation",
     "exported function tectonic_compile_defaults not found",
     "exported function tectonic_generate_format not found",
     "CompileError", "reading output PDF", "no format file generated in cache",
     "reading generated format file"}

\* C18: the error a call is about to return for a failure at or after the
\* instantiation of its sandbox carries the text captured from the
\* sandbox's stderr, whenever the sandbox had written any
C18_SandboxErrorsCarryLogs ==
    \A j \in Jobs :
        (pc[j] \in {"Close", "RemoveAll", "done"}
             /\ ret[j].err.kind \in SandboxFailures
             /\ stderrBuf[j] # "") =>
            ret[j].err.Logs = stderrBuf[j]

\* the directories and files of the host outside the temporary directory
OutsideTemp ==
    [dirs |-> {d \in dirs : ~IsPrefix(<<"tmp">>, d)},
     files |-> [p \in {q \in DOMAIN fs : ~IsPrefix(<<"tmp">>, q)} |-> fs[p]]]

\* C19: no step of a Compile call, of the host code or of the guest in its
\* sandbox, creates, changes or removes a file or directory outside the
\* temporary directory, whether or not a font directory was supplied; with
\* C1 the host filesystem after the call is what it was before
C19_CompileLeavesHostUntouched ==
    [][\A j \in Jobs :
          (kind[j] = "Compile" \/ kind'[j] = "Compile") =>
              OutsideTemp' = OutsideTemp]_vars

\* C20: when New has returned an error it has returned no Compiler and the
\* runtime it created is closed, and no Compiler exists on the host; when
\* it has returned a Compiler there is no error, WASI is installed in the
\* runtime and the module is compiled
C20_NewFailsClosed ==
    newPc = "done" =>
        /\ newRet.err # NoError =>
               /\ ~newRet.compiler
               /\ rt.state = "closed"
               /\ host = NoCompiler
        /\ newRet.compiler =>
               /\ newRet.err = NoError
               /\ rt.wasi
               /\ rt.compiled # "none"
               /\ host = Compiler(ccfg, host.exports)
        /\ newRet.compiler \/ newRet.err # NoError

\* New has failed at rt.CompileModule, after WASI was installed, and the
\* runtime is closed
C20_Witness ==
    /\ newPc = "done"
    /\ newRet.err.kind = "compiling WASM module"
    /\ ~newRet.compiler
    /\ rt.wasi
    /\ rt.state = "closed"

\* the number of entries of PrepareBundle's destination directory
DestEntries == Cardinality(DirEntries(dirs, fs, DirPath(pbArgs.destDir)))

\* C21: a PrepareBundle call that has returned success leaves a destination
\* of at least MinFiles entries, also when it returned at the marker; and a
\* call that found no marker and has returned leaves the marker SHA256SUM
\* in the destination only when it ran to completion and passed validation
C21_MarkerMeansValidated ==
    pbPc = "done" =>
        /\ pbRet = NoError => DestEntries >= MinFiles
        /\ (~pbArgs.force /\ nReqs > 0 /\ HasMarker) => pbRet = NoError

\* caller j has opened latex.fmt in its bundle directory with os.WriteFile
\* and has not written its bytes yet
WritingFormat(j) == kind[j] = "GenerateFormat" /\ pc[j] = "Write"

\* C22: no two GenerateFormat calls have the same latex.fmt open for
\* writing at once, and once every caller that generated a format has
\* returned, latex.fmt in the bundle directory holds the complete artifact
\* of one of them
C22_FormatWritersDisjoint ==
    /\ \A j, k \in Jobs :
           (j # k /\ WritingFormat(j) /\ WritingFormat(k)) =>
               cfg[j].bundleDir # cfg[k].bundleDir
    /\ \A j \in Jobs :
           (/\ kind[j] = "GenerateFormat" /\ pc[j] = "done"
            /\ ret[j].err = NoError /\ fmtPath[j] # <<>>
            /\ \A k \in Jobs : ~WritingFormat(k)) =>
               LET p == Join(DirPath(cfg[j].bundleDir), "latex.fmt")
               IN /\ p \in DOMAIN fs
                  /\ \E k \in Jobs : fmtPath[k] # <<>> /\ fs[p] = fmtData[k]

\* the position of a file name in the order of a directory listing
RECURSIVE IndexOf(_, _)
IndexOf(n, s) == IF s = <<>> \/ Head(s) = n THEN 1 ELSE 1 + IndexOf(n, Tail(s))

\* the files with extension .fmt in the scratch-cache directory of caller j
FormatsInCache(j) ==
    {p \in DOMAIN fs : Parent(p) = Join(tmpDir[j], "cache") /\ Ext(p[Len(p)]) = ".fmt"}

C24_InstanceClosedOnReturn ==
    /\ \A j \in Jobs :
           (pc[j] = "done" /\ mod[j] # 0) => ~insts[mod[j]].open
    /\ \A i \in DOMAIN insts :
           /\ Cardinality({j \in Jobs : mod[j] = i}) = 1
           /\ insts[i].open =>
                  \E j \in Jobs : mod[j] = i /\ pc[j] \notin {"idle", "RemoveAll", "done"}

\* a Compile call whose guest returned zero and left no output has returned
\* with its instance closed
C24_Witness ==
    \E j \in Jobs :
        /\ pc[j] = "done"
        /\ mod[j] # 0
        /\ ~insts[mod[j]].open
        /\ ret[j].err.kind = "reading output PDF"

\* the files that a step creates, overwrites or removes
Touched == {p \in DOMAIN fs \cup DOMAIN fs' :
               p \notin DOMAIN fs \/ p \notin DOMAIN fs' \/ fs'[p] # fs[p]}

\* C25: a step of PrepareBundle removes no file, creates no directory but
\* destDir, and creates or overwrites a file only in the extraction loop:
\* that file is a direct child of destDir and its name is the base name of
\* the entry read, whatever the entry's name
C25_WritesStayInDestDir ==
    [][/\ DOMAIN fs \subseteq DOMAIN fs'
       /\ dirs' \subseteq dirs \cup {DirPath(pbArgs.destDir)}
       /\ \A p \in Touched :
              /\ pbPc = "Next"
              /\ body # <<>>
              /\ Parent(p) = DirPath(pbArgs.destDir)
              /\ p[Len(p)] = Base(Head(body).Name)]_vars

\* after one entry was extracted to a.tex in destDir and nowhere else, the
\* call has failed on an entry whose name ends in ".."
C25_Witness ==
    /\ pbPc = "done"
    /\ pbRet.kind = "writing"
    /\ body # <<>>
    /\ Head(body).Name = <<"tex", "..">>
    /\ files = 1
    /\ Join(DirPath(pbArgs.destDir), "a.tex") \in DOMAIN fs
    /\ \A p \in DOMAIN fs : Parent(p) = DirPath(pbArgs.destDir)

\* C26: once Close has returned no instance is open; a step of a call then
\* instantiates no instance, fails at InstantiateModule and at fn.Call, and
\* the guest writes nothing more; so a call that returns success after
\* Close is a GenerateFormat that found latex.fmt or a call whose guest had
\* completed before Close; and every call that has returned has removed
\* its working directory
C26_ClosedHostFailsCalls ==
    [][/\ rt'.state = "closed" =>
              /\ \A i \in DOMAIN insts' : ~insts'[i].open
              /\ \A j \in Jobs :
                     (pc'[j] = "done" /\ tmpDir'[j] # <<>>) => TreeOf(j)' = {}
       /\ rt.state = "closed" =>
              \A j \in Jobs :
                  /\ DOMAIN insts' \subseteq DOMAIN insts
                  /\ (pc[j] = "Instantiate" /\ pc'[j] # "Instantiate") =>
                         /\ pc'[j] = "RemoveAll"
                         /\ mod'[j] = 0
                         /\ ret'[j].err.kind \in
                                {"instantiating module",
                                 "instantiating module for format generation"}
                  /\ (pc[j] = "Call" /\ pc'[j] # "Call") =>
                         /\ IsPanic(ret'[j].err)
                         /\ ret'[j].bytes = <<>>
                  /\ pc[j] = "Call" => nOps'[j] = nOps[j]
                  /\ (pc[j] # "done" /\ pc'[j] = "done" /\ ret'[j].err = NoError) =>
                         \/ mod[j] # 0 /\ ReturnedZero(j)
                         \/ kind'[j] = "GenerateFormat" /\ pc[j] = "idle"
                                /\ HasFormat(cfg'[j].bundleDir)]_vars

\* after Close a call was started, has failed at InstantiateModule and has
\* returned, and nothing of its working directory is left
C26_Witness ==
    \E j \in Jobs :
        /\ rt.state = "closed"
        /\ insts = <<>>
        /\ pc[j] = "done"
        /\ mod[j] = 0
        /\ ret[j].err.kind = "instantiating module"
        /\ TreeOf(j) = {}
        /\ tmpDir[j] # <<>>

\* the directories of the working tree of caller j that its instance mounts
PrivateMounts(j) == {h \in HostsOf(mod[j]) : IsPrefix(tmpDir[j], h)}

\* C27: while the instance of a call is open, the call's working directory
\* and every directory of it that the instance mounts exist
C27_ClosedBeforeRemoved ==
    \A j \in Jobs :
        (mod[j] # 0 /\ insts[mod[j]].open) =>
            /\ tmpDir[j] \in dirs
            /\ PrivateMounts(j) # {}
            /\ PrivateMounts(j) \subseteq dirs

\* the instance of a call is closed and the call's working tree, with the
\* directories the instance had mounted, is still there
C27_Witness ==
    \E j \in Jobs :
        /\ pc[j] = "RemoveAll"
        /\ mod[j] # 0
        /\ ~insts[mod[j]].open
        /\ tmpDir[j] \in dirs
        /\ PrivateMounts(j) # {}
        /\ PrivateMounts(j) \subseteq dirs

====
